---- MODULE Spec2Model ----
(***************************************************************************)
(* Model of python/sentience_core/srai_integration.py: the runtime that    *)
(* converts the executor's raw tokens and edges, embeds and evaluates      *)
(* them, gates them on quality and commits the accepted ones to the store. *)
(*                                                                         *)
(* Representation.                                                         *)
(*  - A Python dict is a function; a missing key is a key outside DOMAIN,  *)
(*    and subscripting it raises KeyError.                                 *)
(*  - A token's ast (an insertion-ordered dict) is a sequence of           *)
(*    <<key, value>> pairs with distinct keys; keys and values are small   *)
(*    naturals standing for strings.                                       *)
(*  - Floats of the metrics are integers in hundredths (0.6 is 60).        *)
(*  - The collaborators (executor, evaluator, store) are outside the       *)
(*    repository: each call has a nondeterministic outcome (a value from a *)
(*    small set, or an exception), and every call is written to `calls`.   *)
(***************************************************************************)
EXTENDS Integers, Sequences, FiniteSets, TLC

VARIABLES
    sentience_core,  \* "core" or "None" (self.sentience_core)
    token_cache,     \* self.token_cache: token id -> SentienceToken
    step_count,      \* SentienceAgent.step_count
    cortex,          \* the store as its calls leave it: committed tokens, relations
    calls,           \* collaborator calls of the latest run, in order
    outcome,         \* how the latest run ended: none, returned (a result), raised
    ret              \* direct calls of the helpers: arguments and return value

vars == <<sentience_core, token_cache, step_count, cortex, calls, outcome, ret>>

\* ------------------------------------------------------------------ bounds
MaxTokens == 2
MaxEdges == 2
MaxSteps == 2
MaxCalls == 2

\* --------------------------------------------------------------- constants
QUALITY_THRESHOLD == 60
EMBED_DIM == 256
\* The digest is the first 8 hex digits of a sha256 (a number below 16^8);
\* the model keeps a polynomial digest modulo HashMod.
HashMod == 65521

Range(s) == {s[i] : i \in DOMAIN s}

SeqsUpTo(S, n) == UNION {[1..k -> S] : k \in 0..n}

\* --------------------------------------------------------------- data model
\* sentience_core's THOUGHT_TYPE_* constants (raw type strings).
THOUGHT_TYPE_PERCEPT == "percept"
THOUGHT_TYPE_REFLECTION == "reflection"
THOUGHT_TYPE_ACTION == "action"
THOUGHT_TYPE_CONCEPT == "concept"
THOUGHT_TYPE_SELF_MODEL == "self_model"

\* srai.TokenType members used by the conversion.
TokenType == {"PERCEPT", "REFLECTION", "ACTION", "CONCEPT", "SELF"}

\* srai.EdgeType members used by the conversion.
EdgeType == {"ABOUT_SELF", "CAUSES", "SUPPORTS", "CONTRADICTS", "STRUCTURAL",
             "TEMPORAL", "SEMANTIC"}

\* Mutant of type_mapping: the table lacks the self-model entry.
type_mapping_no_self(sentience_type) ==
    CASE sentience_type = THOUGHT_TYPE_PERCEPT -> "PERCEPT"
      [] sentience_type = THOUGHT_TYPE_REFLECTION -> "REFLECTION"
      [] sentience_type = THOUGHT_TYPE_ACTION -> "ACTION"
      [] sentience_type = THOUGHT_TYPE_CONCEPT -> "CONCEPT"
      [] OTHER -> "PERCEPT"

\* type_mapping.get(sentience_type, TokenType.PERCEPT)
type_mapping(sentience_type) ==
    CASE sentience_type = THOUGHT_TYPE_PERCEPT -> "PERCEPT"
      [] sentience_type = THOUGHT_TYPE_REFLECTION -> "REFLECTION"
      [] sentience_type = THOUGHT_TYPE_ACTION -> "ACTION"
      [] sentience_type = THOUGHT_TYPE_CONCEPT -> "CONCEPT"
      [] sentience_type = THOUGHT_TYPE_SELF_MODEL -> "SELF"
      [] OTHER -> "PERCEPT"

\* edge_type_mapping.get(py_edge["edge_type"], EdgeType.SEMANTIC)
edge_type_mapping(edge_type) ==
    CASE edge_type = "ABOUT" -> "ABOUT_SELF"
      [] edge_type = "CAUSES" -> "CAUSES"
      [] edge_type = "SUPPORTS" -> "SUPPORTS"
      [] edge_type = "CONTRADICTS" -> "CONTRADICTS"
      [] edge_type = "DERIVED_FROM" -> "STRUCTURAL"
      [] edge_type = "TEMPORAL" -> "TEMPORAL"
      [] edge_type = "SEMANTIC" -> "SEMANTIC"
      [] edge_type = "STRUCTURAL" -> "STRUCTURAL"
      [] OTHER -> "SEMANTIC"

\* SentienceToken(token_type=..., ast=..., token_id=...)
SentienceToken(token_type, ast, token_id) ==
    [token_type |-> token_type, ast |-> ast, token_id |-> token_id]

\* Edge(source_id=..., target_id=..., edge_type=..., weight=...)
Edge(source_id, target_id, edge_type, weight) ==
    [source_id |-> source_id, target_id |-> target_id,
     edge_type |-> edge_type, weight |-> weight]

\* ReflectionMetrics(valence=..., smd=..., quality=..., next_action=...)
ReflectionMetrics(valence, smd, quality, next_action) ==
    [valence |-> valence, smd |-> smd, quality |-> quality,
     next_action |-> next_action]

\* ------------------------------------------------------------------- gate
\* Mutant of ApprovedTokens: the threshold itself is rejected (> for >=).
ApprovedTokensStrict(tokens, metrics) ==
    SelectSeq(tokens, LAMBDA token : metrics.quality > QUALITY_THRESHOLD)

\* The first loop of _apply_superego_gating: every token is tested against
\* the same metrics.quality.
ApprovedTokens(tokens, metrics) ==
    SelectSeq(tokens, LAMBDA token : metrics.quality >= QUALITY_THRESHOLD)

\* Mutant of ApprovedEdges: one approved endpoint is enough (or for and).
ApprovedEdgesEither(approved_tokens, edges) ==
    LET approved_token_ids == {approved_tokens[i].token_id : i \in DOMAIN approved_tokens}
    IN SelectSeq(edges, LAMBDA edge : \/ edge.source_id \in approved_token_ids
                                      \/ edge.target_id \in approved_token_ids)

\* The second loop: an edge is kept when both endpoints are approved ids.
ApprovedEdges(approved_tokens, edges) ==
    LET approved_token_ids == {approved_tokens[i].token_id : i \in DOMAIN approved_tokens}
    IN SelectSeq(edges, LAMBDA edge : /\ edge.source_id \in approved_token_ids
                                      /\ edge.target_id \in approved_token_ids)

\* _apply_superego_gating(tokens, edges, metrics)
apply_superego_gating(tokens, edges, metrics) ==
    LET approved_tokens == ApprovedTokens(tokens, metrics)
    IN [approved_tokens |-> approved_tokens,
        approved_edges |-> ApprovedEdges(approved_tokens, edges)]

\* Mutant of ApprovedTokensAt: the test is turned round (<= for >=).
ApprovedTokensAtBelow(tokens, metrics, threshold) ==
    SelectSeq(tokens, LAMBDA token : metrics.quality <= threshold)

\* The token loop with the literal 0.6 of its test replaced by `threshold`.
ApprovedTokensAt(tokens, metrics, threshold) ==
    SelectSeq(tokens, LAMBDA token : metrics.quality >= threshold)

\* _apply_superego_gating with the literal 0.6 replaced by `threshold`.
apply_superego_gating_at(tokens, edges, metrics, threshold) ==
    LET approved_tokens == ApprovedTokensAt(tokens, metrics, threshold)
    IN [approved_tokens |-> approved_tokens,
        approved_edges |-> ApprovedEdges(approved_tokens, edges)]

\* --------------------------------------------------------------- embedder
\* TokenType.<member>.value: the enumeration's string value, by its code.
TokenTypeValue(token_type) ==
    CASE token_type = "PERCEPT" -> 11
      [] token_type = "REFLECTION" -> 12
      [] token_type = "ACTION" -> 13
      [] token_type = "CONCEPT" -> 14
      [] token_type = "SELF" -> 15

\* The pairs of a dict in ascending key order (json.dumps(..., sort_keys=True)).
SortKeys(ast) ==
    LET n == Len(ast)
    IN CHOOSE s \in [1..n -> Range(ast)] :
          /\ \A i, j \in 1..n : i < j => s[i][1] < s[j][1]
          /\ Range(s) = Range(ast)

\* The characters of a dict's JSON text: key, value, key, value, ...
RECURSIVE JsonText(_)
JsonText(pairs) ==
    IF pairs = <<>> THEN <<>>
    ELSE <<pairs[1][1], pairs[1][2]>> \o JsonText(Tail(pairs))

\* json.dumps(token.ast, sort_keys=True)
json_dumps(ast) == JsonText(SortKeys(ast))

\* Mutant of token_str: the dict is dumped in insertion order (no sort_keys).
token_str_unsorted(token) ==
    <<TokenTypeValue(token.token_type), 0>> \o JsonText(token.ast)

\* f"{token.token_type.value}:{json.dumps(token.ast, sort_keys=True)}"
token_str(token) == <<TokenTypeValue(token.token_type), 0>> \o json_dumps(token.ast)

\* int(hashlib.sha256(token_str.encode()).hexdigest()[:8], 16): a digest of
\* the characters of token_str and of nothing else.
RECURSIVE Digest(_, _)
Digest(h, str) ==
    IF str = <<>> THEN h
    ELSE Digest((h * 31 + Head(str) + 1) % HashMod, Tail(str))

hash_val(token) == Digest(7, token_str(token))

\* _generate_token_embedding(token): the list of the EMBED_DIM values
\* sin(hash_val * (i + 1)) * 0.1, i in range(EMBED_DIM). The list is a function
\* of its length and of hash_val alone, and is kept as that pair.
generate_token_embedding(token) == [dim |-> EMBED_DIM, seed |-> hash_val(token)]

\* ------------------------------------------------------------- conversion
TokenKeys == {"type", "fields", "id"}
EdgeKeys == {"edge_type", "source_id", "target_id", "weight"}

\* The loop body of _convert_to_srai_tokens for one raw token.
ConvertToken(py_token) ==
    SentienceToken(type_mapping(py_token["type"]), py_token["fields"], py_token["id"])

\* The loop body of _convert_to_srai_edges for one raw edge.
ConvertEdge(py_edge) ==
    Edge(py_edge["source_id"], py_edge["target_id"],
         edge_type_mapping(py_edge["edge_type"]), py_edge["weight"])

\* The first position whose dict lacks a key the loop body subscripts
\* (KeyError is raised there), or Len + 1.
FirstKeyError(py_items, keys) ==
    LET bad == {i \in DOMAIN py_items : ~(keys \subseteq DOMAIN py_items[i])}
    IN IF bad = {} THEN Len(py_items) + 1
       ELSE CHOOSE i \in bad : \A j \in bad : i <= j

\* self.token_cache[py_token["id"]] = srai_token, for the tokens in order.
RECURSIVE CacheWrites(_, _)
CacheWrites(cache, srai_tokens) ==
    IF srai_tokens = <<>> THEN cache
    ELSE LET t == Head(srai_tokens)
         IN CacheWrites([k \in DOMAIN cache \cup {t.token_id} |->
                            IF k = t.token_id THEN t ELSE cache[k]],
                        Tail(srai_tokens))

\* Mutant of convert_to_srai_tokens: a token whose id is in the cache is taken
\* from the cache instead of being converted.
convert_to_srai_tokens_reuse(py_tokens, cache) ==
    LET k == FirstKeyError(py_tokens, TokenKeys)
        done == [i \in 1..(k - 1) |->
                    IF py_tokens[i]["id"] \in DOMAIN cache
                    THEN cache[py_tokens[i]["id"]]
                    ELSE ConvertToken(py_tokens[i])]
    IN [raised |-> k <= Len(py_tokens),
        srai_tokens |-> done,
        token_cache |-> CacheWrites(cache, done)]

\* _convert_to_srai_tokens(py_tokens) on a runtime whose cache is `cache`:
\* the tokens converted before the first KeyError, the cache as it is left,
\* and whether KeyError was raised (then nothing is returned).
convert_to_srai_tokens(py_tokens, cache) ==
    LET k == FirstKeyError(py_tokens, TokenKeys)
        done == [i \in 1..(k - 1) |-> ConvertToken(py_tokens[i])]
    IN [raised |-> k <= Len(py_tokens),
        srai_tokens |-> done,
        token_cache |-> CacheWrites(cache, done)]

\* _convert_to_srai_edges(py_edges)
convert_to_srai_edges(py_edges) ==
    LET k == FirstKeyError(py_edges, EdgeKeys)
    IN [raised |-> k <= Len(py_edges),
        srai_edges |-> [i \in 1..(k - 1) |-> ConvertEdge(py_edges[i])]]

\* ------------------------------------------------------ evaluator adapter
\* Mutant of evaluate_with_refnet: the empty list is sent to the evaluator
\* like any other (no early return).
evaluate_with_refnet_no_default(tokens, ev) ==
    IF ~ev.window_ok
    THEN [calls |-> <<[op |-> "get_stm_window", ok |-> FALSE]>>,
          raised |-> TRUE, error |-> "StoreError", metrics |-> ev.metrics]
    ELSE [calls |-> <<[op |-> "get_stm_window", ok |-> TRUE],
                      [op |-> "evaluate_stm_window",
                       embeddings |-> [i \in DOMAIN tokens |->
                                          generate_token_embedding(tokens[i])],
                       ok |-> ev.eval_ok, returns |-> ev.metrics]>>,
          raised |-> ~ev.eval_ok,
          error |-> IF ev.eval_ok THEN "" ELSE "EvaluatorError",
          metrics |-> ev.metrics]

\* Mutant of evaluate_with_refnet: a failure of the evaluator is swallowed
\* and the neutral default returned in its place.
evaluate_with_refnet_swallow(tokens, ev) ==
    IF tokens = <<>>
    THEN [calls |-> <<>>, raised |-> FALSE, error |-> "",
          metrics |-> ReflectionMetrics(50, 30, 70, "consolidate")]
    ELSE IF ~ev.window_ok
    THEN [calls |-> <<[op |-> "get_stm_window", ok |-> FALSE]>>,
          raised |-> TRUE, error |-> "StoreError", metrics |-> ev.metrics]
    ELSE [calls |-> <<[op |-> "get_stm_window", ok |-> TRUE],
                      [op |-> "evaluate_stm_window",
                       embeddings |-> [i \in DOMAIN tokens |->
                                          generate_token_embedding(tokens[i])],
                       ok |-> ev.eval_ok, returns |-> ev.metrics]>>,
          raised |-> FALSE, error |-> "",
          metrics |-> IF ev.eval_ok THEN ev.metrics
                      ELSE ReflectionMetrics(50, 30, 70, "consolidate")]

\* _evaluate_with_refnet(tokens). `ev` is what the collaborators will answer:
\* whether cortex.get_stm_window() and evaluate_stm_window() return, and the
\* metrics the latter returns.
evaluate_with_refnet(tokens, ev) ==
    IF tokens = <<>>
    THEN [calls |-> <<>>, raised |-> FALSE, error |-> "",
          metrics |-> ReflectionMetrics(50, 30, 70, "consolidate")]
    ELSE IF ~ev.window_ok
    THEN [calls |-> <<[op |-> "get_stm_window", ok |-> FALSE]>>,
          raised |-> TRUE, error |-> "StoreError", metrics |-> ev.metrics]
    ELSE LET embeddings == [i \in DOMAIN tokens |-> generate_token_embedding(tokens[i])]
         IN [calls |-> <<[op |-> "get_stm_window", ok |-> TRUE],
                         [op |-> "evaluate_stm_window", embeddings |-> embeddings,
                          ok |-> ev.eval_ok, returns |-> ev.metrics]>>,
             raised |-> ~ev.eval_ok,
             error |-> IF ev.eval_ok THEN "" ELSE "EvaluatorError",
             metrics |-> ev.metrics]

\* ------------------------------------------------------ commit coordinator
\* Mutant of StoreCalls: the relations are added before the tokens are
\* committed.
StoreCallsRelationsFirst(tokens, edges) ==
    [i \in DOMAIN edges |-> [op |-> "add_relation", edge |-> edges[i], ok |-> TRUE]]
    \o [i \in DOMAIN tokens |->
           [op |-> "commit_token", token |-> tokens[i],
            embedding |-> generate_token_embedding(tokens[i]), ok |-> TRUE]]

\* The store calls _commit_to_cortex makes when none raises: commit_token for
\* each token in order, then add_relation for each edge in order.
StoreCalls(tokens, edges) ==
    [i \in DOMAIN tokens |->
        [op |-> "commit_token", token |-> tokens[i],
         embedding |-> generate_token_embedding(tokens[i]), ok |-> TRUE]]
    \o [i \in DOMAIN edges |-> [op |-> "add_relation", edge |-> edges[i], ok |-> TRUE]]

\* Mutant of commit_to_cortex: when the store raises, the commits of the run
\* made so far are taken back.
commit_to_cortex_rollback(tokens, edges, fail_at) ==
    LET all == StoreCalls(tokens, edges)
        fails == fail_at \in DOMAIN all
        made == IF fails THEN SubSeq(all, 1, fail_at) ELSE all
    IN [calls |-> [i \in DOMAIN made |->
                      IF fails /\ i = fail_at THEN [made[i] EXCEPT !.ok = FALSE]
                      ELSE made[i]],
        raised |-> fails,
        committed |-> IF fails THEN <<>>
                      ELSE SelectSeq(all, LAMBDA c : c.op = "commit_token"),
        related |-> IF fails THEN <<>>
                    ELSE SelectSeq(all, LAMBDA c : c.op = "add_relation")]

\* _commit_to_cortex(tokens, edges) when the store raises in its fail_at-th
\* call of this run (0: in none). An exception of the store is not caught:
\* it ends the loops, and the calls after it are never made.
commit_to_cortex(tokens, edges, fail_at) ==
    LET all == StoreCalls(tokens, edges)
        fails == fail_at \in DOMAIN all
        made == IF fails THEN SubSeq(all, 1, fail_at) ELSE all
        done == IF fails THEN SubSeq(all, 1, fail_at - 1) ELSE all
    IN [calls |-> [i \in DOMAIN made |->
                      IF fails /\ i = fail_at THEN [made[i] EXCEPT !.ok = FALSE]
                      ELSE made[i]],
        raised |-> fails,
        committed |-> SelectSeq(done, LAMBDA c : c.op = "commit_token"),
        related |-> SelectSeq(done, LAMBDA c : c.op = "add_relation")]

\* Mutant of convert_refnet_metrics: the record is filled with the neutral
\* default instead of the evaluation's values.
convert_refnet_metrics_neutral(metrics) ==
    [valence |-> 50, smd |-> 30, quality |-> 70,
     next_action |-> "consolidate", action_logits |-> <<>>]

\* _convert_refnet_metrics(metrics)
convert_refnet_metrics(metrics) ==
    [valence |-> metrics.valence, smd |-> metrics.smd, quality |-> metrics.quality,
     next_action |-> metrics.next_action, action_logits |-> <<>>]

\* Mutant of CoreAvailable: the availability test is missing.
CoreAssumed(core) == TRUE

\* `if not self.sentience_core: raise RuntimeError(...)`
CoreAvailable(core) == core # "None"

Raised(error) == [kind |-> "raised", error |-> error]

\* What one call of process_sentience_dsl does to a runtime whose executor is
\* there: the collaborator calls it makes, how it ends, the cache and the
\* store calls that succeeded. `ex` is the executor's answer (the lists that
\* py_result.tokens() and py_result.edges() return are logged with its
\* call), `ev` the evaluator side's, fail_at the store call that raises.
process_sentience_dsl(cache, ex, ev, fail_at) ==
    LET step == <<[op |-> "process_step", ok |-> ex.ok,
                   tokens |-> ex.tokens, edges |-> ex.edges]>>
        none == [calls |-> step, token_cache |-> cache, committed |-> <<>>,
                 related |-> <<>>]
    IN IF ~ex.ok THEN [none EXCEPT !.calls = step] @@ [outcome |-> Raised("ExecutorError")]
       ELSE
       LET ct == convert_to_srai_tokens(ex.tokens, cache)
           ce == convert_to_srai_edges(ex.edges)
           cached == [none EXCEPT !.token_cache = ct.token_cache]
       IN IF ct.raised \/ ce.raised THEN cached @@ [outcome |-> Raised("KeyError")]
          ELSE
          LET er == evaluate_with_refnet(ct.srai_tokens, ev)
              evaluated == [cached EXCEPT !.calls = step \o er.calls]
          IN IF er.raised THEN evaluated @@ [outcome |-> Raised(er.error)]
             ELSE
             LET g == apply_superego_gating(ct.srai_tokens, ce.srai_edges, er.metrics)
                 cm == commit_to_cortex(g.approved_tokens, g.approved_edges, fail_at)
                 stored == [evaluated EXCEPT !.calls = step \o er.calls \o cm.calls,
                                             !.committed = cm.committed,
                                             !.related = cm.related]
             IN IF cm.raised THEN stored @@ [outcome |-> Raised("StoreError")]
                ELSE stored @@
                     [outcome |->
                        [kind |-> "returned",
                         result |->
                            [token_id |-> ex.token_id,
                             embedding |-> ex.embedding,
                             metrics |-> convert_refnet_metrics(er.metrics),
                             tokens |-> ex.tokens,
                             edges |-> ex.edges,
                             srai_tokens |-> g.approved_tokens,
                             srai_edges |-> g.approved_edges]]]

\* ------------------------------------------------------------ input pools
TokenIds == {"t1", "t2"}
UnknownId == "tX"
AstKeys == {1, 2}
AstValues == {1, 2}

\* Insertion-ordered dicts: sequences of pairs with distinct keys.
AstPool ==
    {a \in SeqsUpTo(AstKeys \X AstValues, Cardinality(AstKeys)) :
        \A i, j \in DOMAIN a : i # j => a[i][1] # a[j][1]}

RawTypes == {THOUGHT_TYPE_PERCEPT, THOUGHT_TYPE_REFLECTION, THOUGHT_TYPE_ACTION,
             THOUGHT_TYPE_CONCEPT, THOUGHT_TYPE_SELF_MODEL, "dream"}

RawEdgeTypes == {"ABOUT", "CAUSES", "SUPPORTS", "CONTRADICTS", "DERIVED_FROM",
                 "TEMPORAL", "SEMANTIC", "STRUCTURAL", "RELATES"}

\* ------------------------------------------------------------------- init
\* __init__: the executor is there or not (the import fallback), the cache
\* is empty; nothing has run.
Init ==
    /\ sentience_core \in {"core", "None"}
    /\ token_cache = <<>>
    /\ step_count = 0
    /\ cortex = [tokens |-> <<>>, relations |-> <<>>]
    /\ calls = <<>>
    /\ outcome = [kind |-> "none"]
    /\ ret = <<>>

\* ------------------------------------------------- direct calls of the gate
GateTokens == {SentienceToken("PERCEPT", <<>>, id) : id \in TokenIds}
GateEdges == {Edge(s, t, "CAUSES", 50) : s, t \in TokenIds \cup {UnknownId}}
GateMetrics == {ReflectionMetrics(40, 20, q, "explore") : q \in {0, 59, 60, 61, 100}}

\* The gate keeps no state between calls: one call per behaviour.
GateCall ==
    /\ ret = <<>>
    /\ \E tokens \in SeqsUpTo(GateTokens, MaxTokens),
       edges \in SeqsUpTo(GateEdges, MaxEdges),
       metrics \in GateMetrics :
        ret' = <<[op |-> "gate", tokens |-> tokens, edges |-> edges,
                     metrics |-> metrics,
                     result |-> apply_superego_gating(tokens, edges, metrics)]>>
    /\ UNCHANGED <<sentience_core, token_cache, step_count, cortex, calls, outcome>>

SpecGate == Init /\ [][GateCall]_vars

\* --------------------------------------------- direct calls of the embedder
EmbedTokens ==
    {SentienceToken(k, a, id) : k \in {"PERCEPT", "SELF"}, a \in AstPool, id \in TokenIds}

EmbedCall ==
    /\ Len(ret) < MaxCalls
    /\ \E token \in EmbedTokens :
        ret' = Append(ret, [op |-> "embed", token |-> token,
                            embedding |-> generate_token_embedding(token)])
    /\ UNCHANGED <<sentience_core, token_cache, step_count, cortex, calls, outcome>>

SpecEmbed == Init /\ [][EmbedCall]_vars

\* ------------------------------------------ direct calls of the conversion
RawTokens ==
    {[type |-> ty, fields |-> <<>>, id |-> id] : ty \in RawTypes, id \in TokenIds}
    \cup {[type |-> ty, fields |-> <<>>] : ty \in RawTypes}

RawEdges ==
    {[edge_type |-> ty, source_id |-> "t1", target_id |-> "t2", weight |-> 50] :
        ty \in RawEdgeTypes}

\* One direct call on a fresh runtime per behaviour, on a runtime whose import
\* of the executor succeeded: the THOUGHT_TYPE_* names
\* the loop reads are bound only then.
ConvertTokensCall ==
    /\ ret = <<>>
    /\ sentience_core = "core"
    /\ \E py_tokens \in SeqsUpTo(RawTokens, MaxTokens) :
        LET r == convert_to_srai_tokens(py_tokens, token_cache)
        IN /\ token_cache' = r.token_cache
           /\ ret' = <<[op |-> "convert_tokens", py_tokens |-> py_tokens,
                        raised |-> r.raised,
                        result |-> IF r.raised THEN <<>> ELSE r.srai_tokens]>>
    /\ UNCHANGED <<sentience_core, step_count, cortex, calls, outcome>>

ConvertEdgesCall ==
    /\ ret = <<>>
    /\ \E py_edges \in SeqsUpTo(RawEdges, MaxEdges) :
        LET r == convert_to_srai_edges(py_edges)
        IN ret' = <<[op |-> "convert_edges", py_edges |-> py_edges,
                     raised |-> r.raised,
                     result |-> IF r.raised THEN <<>> ELSE r.srai_edges]>>
    /\ UNCHANGED <<sentience_core, token_cache, step_count, cortex, calls, outcome>>

SpecConvert == Init /\ [][ConvertTokensCall \/ ConvertEdgesCall]_vars

\* ------------------------------------------------------------- the pipeline
\* What the executor returns for a step: raw tokens (one of them without an
\* id) and raw edges, among them edges to an id that is in no batch.
StepAst == <<<<2, 1>>, <<1, 2>>>>

StepTokens ==
    {[type |-> THOUGHT_TYPE_REFLECTION, fields |-> StepAst, id |-> "t1"],
     [type |-> "dream", fields |-> StepAst, id |-> "t2"],
     [type |-> THOUGHT_TYPE_REFLECTION, fields |-> StepAst]}

StepEdges ==
    {[edge_type |-> "ABOUT", source_id |-> "t1", target_id |-> "t2", weight |-> 50],
     [edge_type |-> "RELATES", source_id |-> "t2", target_id |-> UnknownId, weight |-> 50]}

ExecutorAnswers ==
    {[ok |-> FALSE, token_id |-> "", embedding |-> <<>>, tokens |-> <<>>, edges |-> <<>>]}
    \cup
    {[ok |-> TRUE, token_id |-> "s1", embedding |-> <<>>, tokens |-> ts, edges |-> es] :
        ts \in SeqsUpTo(StepTokens, MaxTokens), es \in SeqsUpTo(StepEdges, MaxEdges)}

StepMetrics == {ReflectionMetrics(40, 20, q, "explore") : q \in {59, 60}}

\* The evaluator side's answers: the window fetch raises, the evaluation
\* raises, or metrics come back.
NoMetrics == ReflectionMetrics(0, 0, 0, "")

EvaluatorAnswers ==
    {[window_ok |-> FALSE, eval_ok |-> FALSE, metrics |-> NoMetrics],
     [window_ok |-> TRUE, eval_ok |-> FALSE, metrics |-> NoMetrics]}
    \cup {[window_ok |-> TRUE, eval_ok |-> TRUE, metrics |-> m] : m \in StepMetrics}

\* The answers a run can observe: the evaluator side is consulted at most
\* when the executor answered and the conversion did not raise.
EvaluatorAnswersFor(ex) ==
    IF /\ ex.ok
       /\ ~convert_to_srai_tokens(ex.tokens, <<>>).raised
       /\ ~convert_to_srai_edges(ex.edges).raised
    THEN EvaluatorAnswers
    ELSE {[window_ok |-> FALSE, eval_ok |-> FALSE, metrics |-> NoMetrics]}

\* The store calls a run can see fail: 0 (none), or one of the calls
\* _commit_to_cortex makes.
FailPoints(ex, ev) ==
    LET ct == convert_to_srai_tokens(ex.tokens, <<>>)
        ce == convert_to_srai_edges(ex.edges)
        er == evaluate_with_refnet(ct.srai_tokens, ev)
        g == apply_superego_gating(ct.srai_tokens, ce.srai_edges, er.metrics)
    IN IF ex.ok /\ ~ct.raised /\ ~ce.raised /\ ~er.raised
       THEN 0..(Len(g.approved_tokens) + Len(g.approved_edges))
       ELSE {0}

\* SentienceAgent.think(dsl_code): count the step, then run the pipeline.
\* An exception leaves the step counted and whatever the run already wrote.
Think ==
    /\ step_count < MaxSteps
    /\ step_count' = step_count + 1
    /\ ret' = ret
    /\ sentience_core' = sentience_core
    /\ IF ~CoreAvailable(sentience_core)
       THEN /\ calls' = <<>>
            /\ outcome' = Raised("RuntimeError")
            /\ UNCHANGED <<token_cache, cortex>>
       ELSE \E ex \in ExecutorAnswers :
            \E ev \in EvaluatorAnswersFor(ex) :
            \E fail_at \in FailPoints(ex, ev) :
            LET r == process_sentience_dsl(token_cache, ex, ev, fail_at)
            IN /\ calls' = r.calls
               /\ outcome' = r.outcome
               /\ token_cache' = r.token_cache
               /\ cortex' = [tokens |-> cortex.tokens \o r.committed,
                             relations |-> cortex.relations \o r.related]

Next == Think

Spec == Init /\ [][Next]_vars

\* C1: every call of the gate accepts the whole token list, in its order,
\* when metrics.quality >= 0.6 (0.6 included) and no token when it is below
\* 0.6; it never accepts a non-empty strict part of the batch.
C1_GateAllOrNothing ==
    \A i \in DOMAIN ret :
        ret[i].op = "gate" =>
            /\ ret[i].metrics.quality >= 60 => ret[i].result.approved_tokens = ret[i].tokens
            /\ ret[i].metrics.quality < 60 => ret[i].result.approved_tokens = <<>>
            /\ ret[i].result.approved_tokens \in {<<>>, ret[i].tokens}

\* A gate call at exactly 0.6 with two different tokens, both accepted.
C1_Witness ==
    \E i \in DOMAIN ret :
        /\ ret[i].op = "gate"
        /\ ret[i].metrics.quality = 60
        /\ Len(ret[i].tokens) = 2
        /\ ret[i].tokens[1] # ret[i].tokens[2]
        /\ ret[i].result.approved_tokens = ret[i].tokens

\* ------------------------------------------------- vocabulary of the claims
CallsOf(op) == SelectSeq(calls, LAMBDA c : c.op = op)

IdsOf(tokens) == {tokens[i].token_id : i \in DOMAIN tokens}

\* The tokens the gate accepted in the latest run: those handed to
\* commit_token (every commit call precedes every add_relation call).
CommitCallTokens == [i \in DOMAIN CallsOf("commit_token") |-> CallsOf("commit_token")[i].token]

\* C2: every accepted edge, and every edge passed to add_relation, has both
\* endpoints among the ids of that run's accepted tokens; an edge with a
\* rejected or unknown endpoint is not in the accepted list.
C2_EdgeEndpointsAccepted ==
    /\ \A i \in DOMAIN calls :
          calls[i].op = "add_relation" =>
              /\ calls[i].edge.source_id \in IdsOf(CommitCallTokens)
              /\ calls[i].edge.target_id \in IdsOf(CommitCallTokens)
    /\ outcome.kind = "returned" =>
          LET res == outcome.result
              all == convert_to_srai_edges(res.edges).srai_edges
          IN /\ \A i \in DOMAIN res.srai_edges :
                   /\ res.srai_edges[i].source_id \in IdsOf(res.srai_tokens)
                   /\ res.srai_edges[i].target_id \in IdsOf(res.srai_tokens)
             /\ \A i \in DOMAIN all :
                   (all[i].source_id \notin IdsOf(res.srai_tokens)
                    \/ all[i].target_id \notin IdsOf(res.srai_tokens))
                   => all[i] \notin Range(res.srai_edges)

\* A run that returned with accepted tokens, kept an edge between them and
\* dropped an edge to an id that is in no batch.
C2_Witness ==
    /\ outcome.kind = "returned"
    /\ outcome.result.srai_tokens # <<>>
    /\ Len(outcome.result.edges) = 2
    /\ Len(outcome.result.srai_edges) = 1
    /\ \E i \in DOMAIN outcome.result.edges :
          outcome.result.edges[i].target_id = UnknownId
    /\ \E i \in DOMAIN calls : calls[i].op = "add_relation"

\* C3: a run whose batch is empty returns the neutral default metrics
\* (0.5, 0.3, 0.7, "consolidate") without fetching the window or calling the
\* evaluator, accepts nothing and makes no commit or add_relation call.
C3_EmptyBatchDefault ==
    (outcome.kind = "returned" /\ outcome.result.tokens = <<>>) =>
        /\ outcome.result.metrics.valence = 50
        /\ outcome.result.metrics.smd = 30
        /\ outcome.result.metrics.quality = 70
        /\ outcome.result.metrics.next_action = "consolidate"
        /\ Len(calls) = 1
        /\ calls[1].op = "process_step"
        /\ outcome.result.srai_tokens = <<>>
        /\ outcome.result.srai_edges = <<>>

\* A returned run over an empty batch that carried edges.
C3_Witness ==
    /\ outcome.kind = "returned"
    /\ outcome.result.tokens = <<>>
    /\ outcome.result.edges # <<>>
    /\ outcome.result.metrics.quality = 70

\* C4: when the evaluator fails, the run raises that failure, returns no
\* result, has made no commit and no add_relation call, and has called the
\* evaluator once.
C4_EvaluatorFailureAborts ==
    (\E i \in DOMAIN calls : calls[i].op = "evaluate_stm_window" /\ ~calls[i].ok) =>
        /\ outcome = Raised("EvaluatorError")
        /\ Len(CallsOf("evaluate_stm_window")) = 1
        /\ CallsOf("commit_token") = <<>>
        /\ CallsOf("add_relation") = <<>>
        /\ calls[Len(calls)].op = "evaluate_stm_window"

\* A second run whose evaluator failed, after a first run that committed:
\* the store holds what the first run left and nothing more.
C4_Witness ==
    /\ outcome = Raised("EvaluatorError")
    /\ step_count = 2
    /\ Len(cortex.tokens) = 1
    /\ Len(CallsOf("evaluate_stm_window")) = 1

\* C5 (as claimed): when commit fails for one accepted token the run still
\* returns a result (and goes on committing the remaining tokens).
C5_CommitFailureIsPartial ==
    (\E i \in DOMAIN calls : calls[i].op = "commit_token" /\ ~calls[i].ok) =>
        outcome.kind = "returned"

\* C6: with no executor (sentience_core is None) every run raises at once:
\* no collaborator call, no cache write, nothing in the store.
C6_NoCoreNoWork ==
    sentience_core = "None" =>
        /\ outcome \in {[kind |-> "none"], Raised("RuntimeError")}
        /\ step_count > 0 => outcome = Raised("RuntimeError")
        /\ calls = <<>>
        /\ token_cache = <<>>
        /\ cortex = [tokens |-> <<>>, relations |-> <<>>]

\* Two runs on a runtime without executor, both refused.
C6_Witness ==
    /\ sentience_core = "None"
    /\ step_count = 2
    /\ outcome = Raised("RuntimeError")

\* C7 (as claimed): the store's commit is invoked at most once for any token
\* id, over all runs.
C7_CommitAtMostOnce ==
    \A i, j \in DOMAIN cortex.tokens :
        i # j => cortex.tokens[i].token.token_id # cortex.tokens[j].token.token_id

\* C8: tokens with the same kind and the same field keys and values get
\* identical vectors of 256 entries, whatever the insertion order of the
\* fields, the token id and the calls made before.
C8_EmbeddingDeterministic ==
    \A i, j \in DOMAIN ret :
        (ret[i].op = "embed" /\ ret[j].op = "embed") =>
            /\ ret[i].embedding.dim = 256
            /\ (/\ ret[i].token.token_type = ret[j].token.token_type
                /\ Range(ret[i].token.ast) = Range(ret[j].token.ast))
               => ret[i].embedding = ret[j].embedding

\* Two embed calls: same kind, same two fields inserted in opposite orders,
\* different ids, equal vectors.
C8_Witness ==
    /\ Len(ret) = 2
    /\ ret[1].op = "embed" /\ ret[2].op = "embed"
    /\ ret[1].token.token_type = ret[2].token.token_type
    /\ Len(ret[1].token.ast) = 2
    /\ ret[1].token.ast # ret[2].token.ast
    /\ Range(ret[1].token.ast) = Range(ret[2].token.ast)
    /\ ret[1].token.token_id # ret[2].token.token_id
    /\ ret[1].embedding = ret[2].embedding

\* The kind the claim gives a raw type string.
ClaimedKind(ty) ==
    IF ty = THOUGHT_TYPE_PERCEPT THEN "PERCEPT"
    ELSE IF ty = THOUGHT_TYPE_REFLECTION THEN "REFLECTION"
    ELSE IF ty = THOUGHT_TYPE_ACTION THEN "ACTION"
    ELSE IF ty = THOUGHT_TYPE_CONCEPT THEN "CONCEPT"
    ELSE IF ty = THOUGHT_TYPE_SELF_MODEL THEN "SELF"
    ELSE "PERCEPT"

\* The edge kind the claim gives a raw edge-type string.
ClaimedEdgeKind(ty) ==
    IF ty = "ABOUT" THEN "ABOUT_SELF"
    ELSE IF ty \in {"DERIVED_FROM", "STRUCTURAL"} THEN "STRUCTURAL"
    ELSE IF ty \in {"CAUSES", "SUPPORTS", "CONTRADICTS", "TEMPORAL", "SEMANTIC"} THEN ty
    ELSE "SEMANTIC"

\* C9: conversion never fails on a type string: each of the five known raw
\* types gets its kind and any other gets Percept; an edge type of the table
\* gets the table's entry and any other gets Semantic; the output has the
\* input's length and order.
C9_ConversionTables ==
    \A c \in DOMAIN ret :
        /\ (ret[c].op = "convert_tokens"
            /\ \A i \in DOMAIN ret[c].py_tokens : TokenKeys \subseteq DOMAIN ret[c].py_tokens[i])
           => /\ ~ret[c].raised
              /\ Len(ret[c].result) = Len(ret[c].py_tokens)
              /\ \A i \in DOMAIN ret[c].py_tokens :
                    /\ ret[c].result[i].token_type = ClaimedKind(ret[c].py_tokens[i]["type"])
                    /\ ret[c].result[i].token_id = ret[c].py_tokens[i]["id"]
                    /\ ret[c].result[i].ast = ret[c].py_tokens[i]["fields"]
        /\ ret[c].op = "convert_edges"
           => /\ ~ret[c].raised
              /\ Len(ret[c].result) = Len(ret[c].py_edges)
              /\ \A i \in DOMAIN ret[c].py_edges :
                    /\ ret[c].result[i].edge_type = ClaimedEdgeKind(ret[c].py_edges[i]["edge_type"])
                    /\ ret[c].result[i].source_id = ret[c].py_edges[i]["source_id"]
                    /\ ret[c].result[i].target_id = ret[c].py_edges[i]["target_id"]
                    /\ ret[c].result[i].weight = ret[c].py_edges[i]["weight"]

\* A conversion of a self-model token followed by a token of unknown type.
C9_Witness ==
    /\ Len(ret) = 1
    /\ ret[1].op = "convert_tokens"
    /\ Len(ret[1].py_tokens) = 2
    /\ ret[1].py_tokens[1] = [type |-> THOUGHT_TYPE_SELF_MODEL, fields |-> <<>>, id |-> "t2"]
    /\ ret[1].py_tokens[2] = [type |-> "dream", fields |-> <<>>, id |-> "t1"]
    /\ ret[1].result[1].token_type = "SELF"
    /\ ret[1].result[2].token_type = "PERCEPT"

\* C10 (as claimed): token conversion raises for no raw token, and a token
\* without id does not keep the rest of the batch from being converted.
C10_ConversionNeverRaises ==
    \A c \in DOMAIN ret :
        ret[c].op = "convert_tokens" =>
            /\ ~ret[c].raised
            /\ Len(ret[c].result) = Len(ret[c].py_tokens)

\* C11 (as claimed): a call of either conversion leaves the token cache, the
\* store and the step counter as they were (here: as __init__ left them).
C11_ConversionNoSideEffects ==
    \A c \in DOMAIN ret :
        ret[c].op \in {"convert_tokens", "convert_edges"} =>
            /\ token_cache = <<>>
            /\ cortex = [tokens |-> <<>>, relations |-> <<>>]
            /\ step_count = 0

\* ------------------------------------- two runtimes that differ in the cache
\* A second runtime is run beside the first with the same collaborators'
\* answers; its cache starts with entries left by earlier use (they disagree
\* with what conversion would write) and may be emptied between runs. Its
\* state is kept in ret[1].
TwinCaches ==
    {("t1" :> SentienceToken("ACTION", <<>>, "t1")),
     ("t1" :> SentienceToken("ACTION", <<>>, "t1")) @@
     ("t2" :> SentienceToken("CONCEPT", <<>>, "t2"))}

InitTwin ==
    /\ sentience_core \in {"core", "None"}
    /\ token_cache = <<>>
    /\ step_count = 0
    /\ cortex = [tokens |-> <<>>, relations |-> <<>>]
    /\ calls = <<>>
    /\ outcome = [kind |-> "none"]
    /\ \E cache \in TwinCaches :
          ret = <<[op |-> "twin", token_cache |-> cache,
                   cortex |-> [tokens |-> <<>>, relations |-> <<>>],
                   calls |-> <<>>, outcome |-> [kind |-> "none"]]>>

\* runtime.token_cache.clear() on the second runtime, between runs.
ClearTwinCache ==
    /\ ret[1].token_cache # <<>>
    /\ ret' = <<[ret[1] EXCEPT !.token_cache = <<>>]>>
    /\ UNCHANGED <<sentience_core, token_cache, step_count, cortex, calls, outcome>>

\* One think() on each runtime, with the same answers of the executor, the
\* evaluator side and the store.
ThinkBoth ==
    /\ step_count < MaxSteps
    /\ step_count' = step_count + 1
    /\ sentience_core' = sentience_core
    /\ IF ~CoreAvailable(sentience_core)
       THEN /\ calls' = <<>>
            /\ outcome' = Raised("RuntimeError")
            /\ ret' = <<[ret[1] EXCEPT !.calls = <<>>,
                                       !.outcome = Raised("RuntimeError")]>>
            /\ UNCHANGED <<token_cache, cortex>>
       ELSE \E ex \in ExecutorAnswers :
            \E ev \in EvaluatorAnswersFor(ex) :
            \E fail_at \in FailPoints(ex, ev) :
            LET r == process_sentience_dsl(token_cache, ex, ev, fail_at)
                t == process_sentience_dsl(ret[1].token_cache, ex, ev, fail_at)
            IN /\ calls' = r.calls
               /\ outcome' = r.outcome
               /\ token_cache' = r.token_cache
               /\ cortex' = [tokens |-> cortex.tokens \o r.committed,
                             relations |-> cortex.relations \o r.related]
               /\ ret' = <<[op |-> "twin", token_cache |-> t.token_cache,
                            cortex |-> [tokens |-> ret[1].cortex.tokens \o t.committed,
                                        relations |-> ret[1].cortex.relations \o t.related],
                            calls |-> t.calls, outcome |-> t.outcome]>>

SpecTwin == InitTwin /\ [][ThinkBoth \/ ClearTwinCache]_vars

\* C12: two runtimes that differ only in the contents of token_cache, given
\* the same runs and the same answers, end every run the same way: the same
\* result or exception, the same collaborator calls with the same arguments,
\* the same store.
C12_CacheIndependence ==
    \A i \in DOMAIN ret :
        ret[i].op = "twin" =>
            /\ outcome = ret[i].outcome
            /\ calls = ret[i].calls
            /\ cortex = ret[i].cortex

\* A returned run that accepted and committed token t1 on both runtimes while
\* their caches differ.
C12_Witness ==
    /\ Len(ret) = 1
    /\ ret[1].op = "twin"
    /\ ret[1].token_cache # token_cache
    /\ outcome.kind = "returned"
    /\ "t1" \in IdsOf(outcome.result.srai_tokens)
    /\ cortex.tokens # <<>>

\* ------------------------------------- the gate under two threshold values
Thresholds == {0, 59, 60, 61, 100}

\* The gate run on the same arguments under a lower and a higher threshold,
\* and as the module has it.
ThresholdCall ==
    /\ ret = <<>>
    /\ \E tokens \in SeqsUpTo(GateTokens, MaxTokens),
          edges \in SeqsUpTo(GateEdges, MaxEdges),
          metrics \in GateMetrics,
          lo \in Thresholds, hi \in Thresholds :
        /\ lo < hi
        /\ ret' = <<[op |-> "gate_at", tokens |-> tokens, edges |-> edges,
                     metrics |-> metrics, lo |-> lo, hi |-> hi,
                     at_lo |-> apply_superego_gating_at(tokens, edges, metrics, lo),
                     at_hi |-> apply_superego_gating_at(tokens, edges, metrics, hi),
                     at_code |-> apply_superego_gating_at(tokens, edges, metrics,
                                                          QUALITY_THRESHOLD),
                     code |-> apply_superego_gating(tokens, edges, metrics)]>>
    /\ UNCHANGED <<sentience_core, token_cache, step_count, cortex, calls, outcome>>

SpecThreshold == Init /\ [][ThresholdCall]_vars

\* C13: for the same tokens, edges and metrics, the tokens and the edges the
\* gate accepts under a higher threshold are among those it accepts under a
\* lower one (and the gate of the module is the gate at 0.6).
C13_GateMonotone ==
    \A i \in DOMAIN ret :
        ret[i].op = "gate_at" =>
            /\ Range(ret[i].at_hi.approved_tokens) \subseteq Range(ret[i].at_lo.approved_tokens)
            /\ Range(ret[i].at_hi.approved_edges) \subseteq Range(ret[i].at_lo.approved_edges)
            /\ ret[i].at_code = ret[i].code

\* Thresholds 0.6 and 0.61 around a quality of 0.6: the lower accepts two
\* tokens and an edge between them, the higher nothing.
C13_Witness ==
    \E i \in DOMAIN ret :
        /\ ret[i].op = "gate_at"
        /\ ret[i].lo = 60 /\ ret[i].hi = 61
        /\ ret[i].metrics.quality = 60
        /\ Len(ret[i].at_lo.approved_tokens) = 2
        /\ ret[i].at_lo.approved_edges # <<>>
        /\ ret[i].at_hi.approved_tokens = <<>>
        /\ ret[i].at_hi.approved_edges = <<>>

\* ------------------------------------------- conversion of converted tokens
\* TokenType.<member>.value is fixed by the installed srai package and the
\* THOUGHT_TYPE_* strings by the executor's binding; the module relates them
\* only through the keys of type_mapping. Two installations: the value of a
\* member is its name in lower case ("self" for SELF), or it is the string of
\* the THOUGHT_TYPE_* name that type_mapping pairs with the member.
ValuesByName ==
    [k \in TokenType |->
        CASE k = "PERCEPT" -> "percept"
          [] k = "REFLECTION" -> "reflection"
          [] k = "ACTION" -> "action"
          [] k = "CONCEPT" -> "concept"
          [] k = "SELF" -> "self"]

ValuesAsBinding ==
    [k \in TokenType |->
        CASE k = "PERCEPT" -> THOUGHT_TYPE_PERCEPT
          [] k = "REFLECTION" -> THOUGHT_TYPE_REFLECTION
          [] k = "ACTION" -> THOUGHT_TYPE_ACTION
          [] k = "CONCEPT" -> THOUGHT_TYPE_CONCEPT
          [] k = "SELF" -> THOUGHT_TYPE_SELF_MODEL]

TokenTypeValues == {ValuesByName, ValuesAsBinding}

\* A converted token put back into the raw shape: type is its kind's value,
\* fields its ast, id its token_id.
canonicalize_inverse(token, values) ==
    [type |-> values[token.token_type], fields |-> token.ast, id |-> token.token_id]

RawTokensWithId == {t \in RawTokens : TokenKeys \subseteq DOMAIN t}

\* Convert a batch, put the result back into the raw shape, convert again.
RoundTripCall ==
    /\ ret = <<>>
    /\ sentience_core = "core"
    /\ \E py_tokens \in SeqsUpTo(RawTokensWithId, MaxTokens), values \in TokenTypeValues :
        LET first == convert_to_srai_tokens(py_tokens, token_cache)
            back == [i \in DOMAIN first.srai_tokens |->
                        canonicalize_inverse(first.srai_tokens[i], values)]
            second == convert_to_srai_tokens(back, first.token_cache)
        IN /\ token_cache' = second.token_cache
           /\ ret' = <<[op |-> "round_trip", py_tokens |-> py_tokens,
                        values |-> values, first |-> first.srai_tokens,
                        back |-> back, second |-> second.srai_tokens]>>
    /\ UNCHANGED <<sentience_core, step_count, cortex, calls, outcome>>

SpecRoundTrip == Init /\ [][RoundTripCall]_vars

IsSubList(a, b) ==
    \E f \in [1..Len(a) -> 1..Len(b)] :
        /\ \A i, j \in 1..Len(a) : i < j => f[i] < f[j]
        /\ \A i \in 1..Len(a) : a[i] = b[f[i]]

\* The metrics the evaluation step of the latest run produced: what the
\* evaluator returned, or the neutral default when it was not called.
EvaluatedMetrics ==
    IF CallsOf("evaluate_stm_window") = <<>>
    THEN ReflectionMetrics(50, 30, 70, "consolidate")
    ELSE CallsOf("evaluate_stm_window")[1].returns

\* C15: a returned result holds the executor's raw token and edge lists as the
\* executor gave them, metrics equal field for field to those of the run's
\* evaluation, and as accepted lists what the gate passed on to the store;
\* the accepted lists are sub-lists, in order, of the converted raw lists.
C15_ResultRecord ==
    outcome.kind = "returned" =>
        LET res == outcome.result
            m == EvaluatedMetrics
        IN /\ res.tokens = calls[1].tokens
           /\ res.edges = calls[1].edges
           /\ res.metrics.valence = m.valence
           /\ res.metrics.smd = m.smd
           /\ res.metrics.quality = m.quality
           /\ res.metrics.next_action = m.next_action
           /\ res.srai_tokens = CommitCallTokens
           /\ res.srai_edges = [i \in DOMAIN CallsOf("add_relation") |->
                                   CallsOf("add_relation")[i].edge]
           /\ res.srai_tokens = ApprovedTokens(convert_to_srai_tokens(res.tokens, <<>>).srai_tokens, m)
           /\ IsSubList(res.srai_tokens, convert_to_srai_tokens(res.tokens, <<>>).srai_tokens)
           /\ IsSubList(res.srai_edges, convert_to_srai_edges(res.edges).srai_edges)

\* A returned run whose evaluator gave quality 0.59: the result keeps the two
\* raw tokens and the raw edge, and its accepted lists are empty.
C15_Witness ==
    /\ outcome.kind = "returned"
    /\ outcome.result.metrics.quality = 59
    /\ Len(outcome.result.tokens) = 2
    /\ outcome.result.edges # <<>>
    /\ outcome.result.srai_tokens = <<>>
    /\ outcome.result.srai_edges = <<>>

\* C16: in a run that returns, the collaborator calls are, in this order and
\* each made once: the executor call, at most one evaluator call (given one
\* embedding per converted token, in token order), one commit per accepted
\* token in accepted order, one add_relation per accepted edge in accepted
\* order; none is repeated after a failure.
C16_CallOrder ==
    outcome.kind = "returned" =>
        LET res == outcome.result
            converted == convert_to_srai_tokens(calls[1].tokens, <<>>).srai_tokens
            evals == CallsOf("evaluate_stm_window")
            relations == CallsOf("add_relation")
        IN /\ calls[1].op = "process_step"
           /\ Len(CallsOf("process_step")) = 1
           /\ \A i \in DOMAIN calls : calls[i].ok
           /\ Len(evals) <= 1
           /\ \A i \in DOMAIN evals :
                 evals[i].embeddings =
                     [k \in DOMAIN converted |-> generate_token_embedding(converted[k])]
           /\ CommitCallTokens = res.srai_tokens
           /\ [i \in DOMAIN relations |-> relations[i].edge] = res.srai_edges
           /\ \A i, j \in DOMAIN calls :
                 /\ (calls[i].op = "evaluate_stm_window"
                     /\ calls[j].op \in {"commit_token", "add_relation"}) => i < j
                 /\ (calls[i].op = "commit_token" /\ calls[j].op = "add_relation") => i < j

\* A returned run with one evaluator call given two embeddings, two commits
\* and one add_relation after them.
C16_Witness ==
    /\ outcome.kind = "returned"
    /\ Len(calls) = 6
    /\ calls[3].op = "evaluate_stm_window"
    /\ Len(calls[3].embeddings) = 2
    /\ calls[4].op = "commit_token" /\ calls[5].op = "commit_token"
    /\ calls[6].op = "add_relation"

\* Every token the latest run converted is in the cache under its id.
ConvertedAreCached ==
    LET converted == convert_to_srai_tokens(calls[1].tokens, <<>>).srai_tokens
    IN \A i \in DOMAIN converted :
          /\ converted[i].token_id \in DOMAIN token_cache
          /\ token_cache[converted[i].token_id] \in Range(converted)

\* C17: a failed run is not rolled back. When commit raises for the k-th
\* accepted token, the k-1 commits the run made are the last entries of the
\* store, the run makes no add_relation call, and the cache keeps what the
\* run's conversion wrote; the cache keeps it after an evaluator failure too.
C17_NoRollback ==
    /\ (\E i \in DOMAIN calls : calls[i].op = "commit_token" /\ ~calls[i].ok) =>
          LET made == SelectSeq(CallsOf("commit_token"), LAMBDA c : c.ok)
              n == Len(cortex.tokens)
          IN /\ outcome = Raised("StoreError")
             /\ n >= Len(made)
             /\ SubSeq(cortex.tokens, n - Len(made) + 1, n) = made
             /\ CallsOf("add_relation") = <<>>
             /\ ConvertedAreCached
    /\ outcome = Raised("EvaluatorError") => ConvertedAreCached

\* A run whose second commit raised: the first commit is in the store and
\* both tokens are in the cache.
C17_Witness ==
    /\ outcome = Raised("StoreError")
    /\ Len(CallsOf("commit_token")) = 2
    /\ CallsOf("commit_token")[1].ok
    /\ ~CallsOf("commit_token")[2].ok
    /\ cortex.tokens # <<>>
    /\ cortex.tokens[Len(cortex.tokens)] = CallsOf("commit_token")[1]
    /\ {"t1", "t2"} \subseteq DOMAIN token_cache

====
